---- MODULE Spec2Model ----
(***************************************************************************)
(* Model of the concurrent path prober (core/directory_scanner.py,         *)
(* DirectoryScanner) of nidhz_ultimate: one main thread that submits every *)
(* candidate to a bounded thread pool and aggregates the futures, and the  *)
(* pool's worker threads that each run _check_directory against the HTTP   *)
(* transport.                                                              *)
(***************************************************************************)
EXTENDS Integers, Sequences, FiniteSets, TLC

VARIABLES
    requested,   \* the threads argument of DirectoryScanner.__init__
    threads,     \* self.threads
    base_url,    \* self.base_url
    wordlist,    \* self.wordlist
    transport,   \* what self.client.get answers for each URL
    pc,          \* position of the main thread inside scan()
    exc,         \* the exception scan() raised, "none" while it has not
    submitted,   \* number of words already passed to executor.submit
    task,        \* state of each submitted work item in the pool
    future,      \* outcome stored in each finished future
    order,       \* work items in the order their futures finished
    snap,        \* futures already finished when as_completed started
    yielded,     \* futures as_completed has handed to the loop
    cur,         \* future handled by the current loop iteration
    completed,   \* local counter `completed` of scan()
    stats,       \* self.stats
    results,     \* self.results
    requests,    \* number of self.client.get calls made for each work item
    interrupted, \* a KeyboardInterrupt was delivered to the main thread
    future_to_url, \* the URL each submitted work item was built for
    fin,         \* arguments of the function under study
    fout,        \* what the function returned for them
    target,      \* the URL an injection scanner is run on, and its payloads
    co,          \* where the scan of that URL stands
    baseline,    \* the response to the unmodified request
    true_response,   \* the response to the true condition
    vulnerabilities, \* the findings of the scan so far
    sent         \* the probe requests of the scan so far

proberVars == <<requested, threads, base_url, wordlist, transport, pc, exc,
                submitted, task, future, order, snap, yielded, cur,
                completed, stats, results, requests, interrupted,
                future_to_url>>

\* the state of a scan by an injection scanner
coordVars == <<target, co, baseline, true_response, vulnerabilities, sent>>

\* state outside the path prober
aux == <<fin, fout, coordVars>>

vars == <<proberVars, aux>>

\* no function is under study
FnIdle ==
    /\ fin = <<>>
    /\ fout = <<>>

\* no injection scanner is running
CoordIdle ==
    /\ target = [query |-> <<>>, error_payloads |-> 0, time_payloads |-> 0,
                 xss_payloads |-> 0]
    /\ co = [pc |-> "idle", f |-> 0, p |-> 0, k |-> 0]
    /\ baseline = <<>>
    /\ true_response = <<>>
    /\ vulnerabilities = <<>>
    /\ sent = <<>>

\* nothing outside the path prober is running
AuxIdle == FnIdle /\ CoordIdle

-----------------------------------------------------------------------------
(* Bounds of the model *)

MaxWords == 2

(* Program constants *)

ThreadCap == 200

Min(a, b) == IF a <= b THEN a ELSE b

-----------------------------------------------------------------------------
(* URL strings are sequences of tokens: "/" is the separator, every other  *)
(* token is a whole scheme, host or path segment.                          *)

BaseUrlArg == <<"http:", "/", "/", "target", "/", "app", "/">>

Words == {<<"admin">>, <<"/", "login">>}

RECURSIVE RStripSlash(_)
RStripSlash(s) ==
    IF Len(s) > 0 /\ s[Len(s)] = "/"
    THEN RStripSlash(SubSeq(s, 1, Len(s) - 1))
    ELSE s

IsScheme(tok) == tok \in {"http:", "https:"}

\* s.split('/'): the segments between the "/" tokens
Split[s \in Seq(STRING)] ==
    IF \A k \in 1..Len(s) : s[k] # "/"
    THEN <<s>>
    ELSE LET k == CHOOSE m \in 1..Len(s) :
                      s[m] = "/" /\ \A n \in 1..(m - 1) : s[n] # "/"
         IN  <<SubSeq(s, 1, k - 1)>> \o Split[SubSeq(s, k + 1, Len(s))]

\* '/'.join(segs)
Join[segs \in Seq(Seq(STRING))] ==
    IF Len(segs) = 0 THEN <<>>
    ELSE IF Len(segs) = 1 THEN segs[1]
    ELSE segs[1] \o <<"/">> \o Join[Tail(segs)]

\* urlparse(url, default): scheme, netloc and path of a URL string
UrlParse[url \in Seq(STRING), default \in STRING] ==
    LET hasScheme == Len(url) > 0 /\ IsScheme(url[1])
        rest == IF hasScheme THEN Tail(url) ELSE url
        hasNet == Len(rest) >= 2 /\ rest[1] = "/" /\ rest[2] = "/"
        after == IF hasNet THEN SubSeq(rest, 3, Len(rest)) ELSE rest
        netloc == IF hasNet THEN Split[after][1] ELSE <<>>
    IN  [scheme |-> IF hasScheme THEN url[1] ELSE default,
         netloc |-> netloc,
         path |-> SubSeq(after, Len(netloc) + 1, Len(after))]

\* urlunparse((scheme, netloc, path, '', '', ''))
UrlUnparse[scheme \in STRING, netloc \in Seq(STRING), path \in Seq(STRING)] ==
    LET doubleSlash == Len(path) >= 2 /\ path[1] = "/" /\ path[2] = "/"
        rooted == IF Len(path) > 0 /\ path[1] # "/"
                  THEN <<"/">> \o path
                  ELSE path
        url == IF Len(netloc) > 0 \/ (IsScheme(scheme) /\ ~doubleSlash)
               THEN <<"/", "/">> \o netloc \o rooted
               ELSE path
    IN  IF scheme # "" THEN <<scheme>> \o url ELSE url

\* segments[1:-1] = filter(None, segments[1:-1])
FilterMiddle[segs \in Seq(Seq(STRING))] ==
    IF Len(segs) < 3 THEN segs
    ELSE <<segs[1]>>
         \o SelectSeq(SubSeq(segs, 2, Len(segs) - 1), LAMBDA g : g # <<>>)
         \o <<segs[Len(segs)]>>

\* the segments urljoin resolves: those of an absolute path, otherwise the
\* directory of the base path followed by those of the relative path
Segments[bpath \in Seq(STRING), path \in Seq(STRING)] ==
    LET parts == Split[bpath]
        base_parts == IF parts[Len(parts)] # <<>>
                      THEN SubSeq(parts, 1, Len(parts) - 1)
                      ELSE parts
    IN  IF Len(path) > 0 /\ path[1] = "/"
        THEN Split[path]
        ELSE FilterMiddle[base_parts \o Split[path]]

\* removal of the '.' and '..' segments
ResolveDots[segs \in Seq(Seq(STRING)), acc \in Seq(Seq(STRING))] ==
    IF Len(segs) = 0 THEN acc
    ELSE IF segs[1] = <<"..">>
    THEN ResolveDots[Tail(segs),
                     IF Len(acc) = 0 THEN acc ELSE SubSeq(acc, 1, Len(acc) - 1)]
    ELSE IF segs[1] = <<".">> THEN ResolveDots[Tail(segs), acc]
    ELSE ResolveDots[Tail(segs), Append(acc, segs[1])]

\* resolved_path, closed by an empty segment after a final '.' or '..'
ResolvedPath[segments \in Seq(Seq(STRING))] ==
    IF segments[Len(segments)] \in {<<".">>, <<"..">>}
    THEN Append(ResolveDots[segments, <<>>], <<>>)
    ELSE ResolveDots[segments, <<>>]

\* path or '/'
OrRoot[path \in Seq(STRING)] == IF path = <<>> THEN <<"/">> ELSE path

\* urllib.parse.urljoin(base, url)
UrlJoin(base, url) ==
    LET b == UrlParse[base, ""]
        u == UrlParse[url, b.scheme]
    IN  IF Len(url) = 0 THEN base
        ELSE IF u.scheme # b.scheme THEN url
        ELSE IF Len(u.netloc) > 0 THEN UrlUnparse[u.scheme, u.netloc, u.path]
        ELSE IF Len(u.path) = 0 THEN UrlUnparse[u.scheme, b.netloc, b.path]
        ELSE UrlUnparse[u.scheme, b.netloc,
                        OrRoot[Join[ResolvedPath[Segments[b.path, u.path]]]]]

BuildUrl(base, path) ==
    LET p == IF Len(path) > 0 /\ path[1] = "/"
             THEN SubSeq(path, 2, Len(path))
             ELSE path
    IN  UrlJoin(base \o <<"/">>, p)

-----------------------------------------------------------------------------
(* The transport collaborator *)

MainStatuses == {200, 301, 403, 404, 500}

ProbeStatuses == 100..599

Response(s) == [kind |-> "response", status |-> s]

Failures == {[kind |-> k, status |-> 0] : k \in {"none", "raise", "hang"}}

TransportOutcomes(statuses) == {Response(s) : s \in statuses} \cup Failures

-----------------------------------------------------------------------------
(* _is_interesting_response and _check_directory *)

\* a variant that takes 500 itself for an uninteresting status
IsInterestingResponse_Above500(status) ==
    \/ status \in {200, 201, 204}
    \/ status \in {301, 302, 303, 307, 308}
    \/ status \in {401, 403}
    \/ status > 500

IsInterestingResponse(status) ==
    \/ status \in {200, 201, 204}
    \/ status \in {301, 302, 303, 307, 308}
    \/ status \in {401, 403}
    \/ status >= 500

None == [kind |-> "None", url |-> <<>>, status_code |-> 0]

Raised == [kind |-> "exception", url |-> <<>>, status_code |-> 0]

Result(url, status) == [kind |-> "result", url |-> url, status_code |-> status]

\* a variant that retains every response
CheckDirectory_AnyResponse(url, answer) ==
    IF answer.kind = "response"
    THEN Result(url, answer.status)
    ELSE None

\* the value a worker stores in the future of `url`
CheckDirectory(url, answer) ==
    IF answer.kind = "response" /\ IsInterestingResponse(answer.status)
    THEN Result(url, answer.status)
    ELSE None

-----------------------------------------------------------------------------
(* State after DirectoryScanner.__init__ *)

ThreadChoices == {0, 1, 2, 250}

ClampThreads(t) == IF t < ThreadCap THEN t ELSE ThreadCap

Wordlists(n) == UNION {[1..k -> Words] : k \in 0..n}

\* the URLs one scan requests
Urls(base, words) == {BuildUrl(base, words[i]) : i \in 1..Len(words)}

\* DirectoryScanner(base_url, wordlist, threads) for one of the given
\* arguments, and a transport that answers with one of the given statuses
InitFor(bases, lists, counts, statuses) ==
    /\ requested \in counts
    /\ threads = ClampThreads(requested)
    /\ base_url \in {RStripSlash(b) : b \in bases}
    /\ wordlist \in lists
    /\ transport \in [Urls(base_url, wordlist) -> TransportOutcomes(statuses)]
    /\ pc = "start"
    /\ exc = "none"
    /\ submitted = 0
    /\ task = [i \in 1..Len(wordlist) |-> "new"]
    /\ future = [i \in 1..Len(wordlist) |-> None]
    /\ order = <<>>
    /\ snap = {}
    /\ yielded = {}
    /\ cur = 0
    /\ completed = 0
    /\ stats = [total |-> 0, found |-> 0, errors |-> 0]
    /\ results = <<>>
    /\ requests = [i \in 1..Len(wordlist) |-> 0]
    /\ interrupted = FALSE
    /\ future_to_url = <<>>

InitWith(lists, counts, statuses) ==
    InitFor({BaseUrlArg}, lists, counts, statuses)

Init == InitWith(Wordlists(MaxWords), ThreadChoices, MainStatuses) /\ AuxIdle

-----------------------------------------------------------------------------
(* The thread pool: ThreadPoolExecutor(max_workers=self.threads) *)

N == Len(wordlist)

\* a variant that sizes the pool by the word list
MaxWorkers_PerWord == N

MaxWorkers == threads

InFlight == Cardinality({i \in 1..N : task[i] = "running"})

\* with ThreadPoolExecutor(max_workers=self.threads) as executor:
CreatePool ==
    /\ pc = "start"
    /\ IF MaxWorkers <= 0
       THEN pc' = "raised" /\ exc' = "ValueError"
       ELSE pc' = "submit" /\ exc' = exc
    /\ UNCHANGED <<requested, threads, base_url, wordlist, transport,
                   future_to_url,
                   submitted, task, future, order, snap, yielded, cur,
                   completed, stats, results, requests, interrupted>>
    /\ UNCHANGED aux

\* one iteration of `for word in self.wordlist`: executor.submit(...)
SubmitTask ==
    /\ pc = "submit"
    /\ submitted < N
    /\ submitted' = submitted + 1
    /\ future_to_url' = Append(future_to_url,
                               BuildUrl(base_url, wordlist[submitted + 1]))
    /\ task' = [task EXCEPT ![submitted + 1] = "queued"]
    /\ UNCHANGED <<requested, threads, base_url, wordlist, transport, pc,
                   exc, future, order, snap, yielded, cur, completed, stats,
                   results, requests, interrupted>>
    /\ UNCHANGED aux

\* a pool worker takes the oldest queued work item and calls
\* self.client.get(url, follow_redirects=False)
StartTask(i) ==
    /\ task[i] = "queued"
    /\ \A j \in 1..(i - 1) : task[j] # "queued"
    /\ InFlight < MaxWorkers
    /\ task' = [task EXCEPT ![i] = "running"]
    /\ requests' = [requests EXCEPT ![i] = @ + 1]
    /\ UNCHANGED <<requested, threads, base_url, wordlist, transport,
                   future_to_url, pc,
                   exc, submitted, future, order, snap, yielded, cur,
                   completed, stats, results, interrupted>>
    /\ UNCHANGED aux

\* a variant in which the worker itself records what it found
FinishTask_Records(i) ==
    LET url == future_to_url[i]
        res == CheckDirectory(url, transport[url])
    IN
    /\ task[i] = "running"
    /\ transport[url].kind # "hang"
    /\ task' = [task EXCEPT ![i] = "finished"]
    /\ future' = [future EXCEPT ![i] = None]
    /\ order' = Append(order, i)
    /\ IF res.kind = "result"
       THEN /\ results' = Append(results, res)
            /\ stats' = [stats EXCEPT !.found = @ + 1]
       ELSE UNCHANGED <<stats, results>>
    /\ UNCHANGED <<requested, threads, base_url, wordlist, transport,
                   future_to_url, pc,
                   exc, submitted, snap, yielded, cur, completed, requests,
                   interrupted>>
    /\ UNCHANGED aux

\* the transport answers and _check_directory returns into the future
FinishTask(i) ==
    LET url == future_to_url[i] IN
    /\ task[i] = "running"
    /\ transport[url].kind # "hang"
    /\ task' = [task EXCEPT ![i] = "finished"]
    /\ future' = [future EXCEPT ![i] = CheckDirectory(url, transport[url])]
    /\ order' = Append(order, i)
    /\ UNCHANGED <<requested, threads, base_url, wordlist, transport,
                   future_to_url, pc,
                   exc, submitted, snap, yielded, cur, completed, stats,
                   results, requests, interrupted>>
    /\ UNCHANGED aux

-----------------------------------------------------------------------------
(* The aggregation loop of scan() *)

\* a variant in which the aggregation loop may start while candidates are
\* still to be submitted
AsCompleted_Early ==
    /\ pc = "submit"
    /\ pc' = "collect"
    /\ snap' = {i \in 1..N : task[i] = "finished"}
    /\ UNCHANGED <<requested, threads, base_url, wordlist, transport,
                   future_to_url, exc,
                   submitted, task, future, order, yielded, cur, completed,
                   stats, results, requests, interrupted>>
    /\ UNCHANGED aux

\* first call of the as_completed generator: the futures that are already
\* finished are collected into a set
AsCompleted ==
    /\ pc = "submit"
    /\ submitted = N
    /\ pc' = "collect"
    /\ snap' = {i \in 1..N : task[i] = "finished"}
    /\ UNCHANGED <<requested, threads, base_url, wordlist, transport,
                   future_to_url, exc,
                   submitted, task, future, order, yielded, cur, completed,
                   stats, results, requests, interrupted>>
    /\ UNCHANGED aux

\* the futures as_completed may yield next: any of the initially finished
\* ones (set order), after them the others in the order they finished
NextFutures ==
    IF snap \ yielded # {}
    THEN snap \ yielded
    ELSE LET rest == {k \in 1..Len(order) : order[k] \notin yielded}
         IN  {order[k] : k \in {m \in rest : \A n \in rest : m <= n}}

\* a variant in which the except clause also runs for a retained result
HandleResult_CountsBoth(s, r, f) ==
    IF f.kind = "exception"
    THEN [stats |-> [s EXCEPT !.errors = @ + 1], results |-> r]
    ELSE IF f.kind = "result"
    THEN [stats |-> [s EXCEPT !.found = @ + 1, !.errors = @ + 1],
          results |-> Append(r, f)]
    ELSE [stats |-> s, results |-> r]

\* a variant that puts a retained result in front of the list
HandleResult_Prepends(s, r, f) ==
    IF f.kind = "exception"
    THEN [stats |-> [s EXCEPT !.errors = @ + 1], results |-> r]
    ELSE IF f.kind = "result"
    THEN [stats |-> [s EXCEPT !.found = @ + 1], results |-> <<f>> \o r]
    ELSE [stats |-> s, results |-> r]

\* try: result = future.result(timeout=1) ... except Exception: errors += 1
HandleResult(s, r, f) ==
    IF f.kind = "exception"
    THEN [stats |-> [s EXCEPT !.errors = @ + 1], results |-> r]
    ELSE IF f.kind = "result"
    THEN [stats |-> [s EXCEPT !.found = @ + 1], results |-> Append(r, f)]
    ELSE [stats |-> s, results |-> r]

\* a variant without the guard on an empty result: the loop body fails on a
\* future that holds no result and the exception leaves scan()
AggregateResult_Unguarded(i) ==
    LET h == HandleResult(stats, results, future[i]) IN
    /\ pc = "collect"
    /\ i \in NextFutures
    /\ yielded' = yielded \cup {i}
    /\ completed' = completed + 1
    /\ cur' = i
    /\ stats' = h.stats
    /\ results' = h.results
    /\ IF future[i].kind = "result"
       THEN pc' = "update" /\ exc' = exc
       ELSE pc' = "raised" /\ exc' = "TypeError"
    /\ UNCHANGED <<requested, threads, base_url, wordlist, transport,
                   future_to_url,
                   submitted, task, future, order, snap, requests,
                   interrupted>>
    /\ UNCHANGED aux

\* lines 71-86: the loop body up to the end of the try statement
AggregateResult(i) ==
    LET h == HandleResult(stats, results, future[i]) IN
    /\ pc = "collect"
    /\ i \in NextFutures
    /\ yielded' = yielded \cup {i}
    /\ completed' = completed + 1
    /\ cur' = i
    /\ stats' = h.stats
    /\ results' = h.results
    /\ pc' = "update"
    /\ UNCHANGED <<requested, threads, base_url, wordlist, transport,
                   future_to_url, exc,
                   submitted, task, future, order, snap, requests,
                   interrupted>>
    /\ UNCHANGED aux

\* a variant that counts a request only when it found something
UpdateStats_FoundOnly ==
    /\ pc = "update"
    /\ stats' = IF future[cur].kind = "result"
                THEN [stats EXCEPT !.total = completed]
                ELSE stats
    /\ pc' = "collect"
    /\ UNCHANGED <<requested, threads, base_url, wordlist, transport,
                   future_to_url, exc,
                   submitted, task, future, order, snap, yielded, cur,
                   completed, results, requests, interrupted>>
    /\ UNCHANGED aux

\* lines 88-92: progress.update(1); self.stats['total'] = completed
UpdateStats ==
    /\ pc = "update"
    /\ stats' = [stats EXCEPT !.total = completed]
    /\ pc' = "collect"
    /\ UNCHANGED <<requested, threads, base_url, wordlist, transport,
                   future_to_url, exc,
                   submitted, task, future, order, snap, yielded, cur,
                   completed, results, requests, interrupted>>
    /\ UNCHANGED aux

\* a variant that stops collecting as soon as no finished future is waiting
Return_WhenIdle ==
    /\ pc = "collect"
    /\ NextFutures = {}
    /\ IF N = 0
       THEN pc' = "raised" /\ exc' = "ZeroDivisionError"
       ELSE pc' = "done" /\ exc' = exc
    /\ UNCHANGED <<requested, threads, base_url, wordlist, transport,
                   future_to_url,
                   submitted, task, future, order, snap, yielded, cur,
                   completed, stats, results, requests, interrupted>>
    /\ UNCHANGED aux

\* as_completed is exhausted, the with block ends, progress.close() divides
\* by the length of the word list, then `return self.results`
Return ==
    /\ pc = "collect"
    /\ yielded = 1..N
    /\ IF N = 0
       THEN pc' = "raised" /\ exc' = "ZeroDivisionError"
       ELSE pc' = "done" /\ exc' = exc
    /\ UNCHANGED <<requested, threads, base_url, wordlist, transport,
                   future_to_url,
                   submitted, task, future, order, snap, yielded, cur,
                   completed, stats, results, requests, interrupted>>
    /\ UNCHANGED aux

-----------------------------------------------------------------------------
(* A user interrupt: KeyboardInterrupt raised in the main thread inside the  *)
(* with block; executor.__exit__ runs shutdown(wait=True) and re-raises.    *)

Interrupt ==
    /\ pc \in {"submit", "collect", "update"}
    /\ interrupted' = TRUE
    /\ pc' = "unwind"
    /\ UNCHANGED <<requested, threads, base_url, wordlist, transport,
                   future_to_url, exc,
                   submitted, task, future, order, snap, yielded, cur,
                   completed, stats, results, requests>>
    /\ UNCHANGED aux

Unwind ==
    /\ pc = "unwind"
    /\ \A i \in 1..submitted : task[i] = "finished"
    /\ pc' = "raised"
    /\ exc' = "KeyboardInterrupt"
    /\ UNCHANGED <<requested, threads, base_url, wordlist, transport,
                   future_to_url,
                   submitted, task, future, order, snap, yielded, cur,
                   completed, stats, results, requests, interrupted>>
    /\ UNCHANGED aux

-----------------------------------------------------------------------------

MainStep ==
    \/ CreatePool
    \/ SubmitTask
    \/ AsCompleted
    \/ \E i \in 1..N : AggregateResult(i)
    \/ UpdateStats
    \/ Return
    \/ Unwind

WorkerStep ==
    \/ \E i \in 1..N : StartTask(i)
    \/ \E i \in 1..N : FinishTask(i)

Next ==
    \/ CreatePool
    \/ SubmitTask
    \/ AsCompleted
    \/ \E i \in 1..N : AggregateResult(i)
    \/ UpdateStats
    \/ Return
    \/ Interrupt
    \/ Unwind
    \/ \E i \in 1..N : StartTask(i)
    \/ \E i \in 1..N : FinishTask(i)

Spec == Init /\ [][Next]_vars

\* one candidate at most, every status code
ProbeInit == InitWith(Wordlists(1), {0, 1}, ProbeStatuses) /\ AuxIdle

ProbeSpec == ProbeInit /\ [][Next]_vars

\* the threads of the program run whenever they can; the interrupt is the
\* user's and may never come
FairSpec == Spec /\ WF_vars(MainStep \/ WorkerStep)

\* scans of one candidate at most, configured well or badly: a base URL
\* without a scheme, no candidate, no worker
BadBaseUrlArg == <<"target", "/", "app">>

ConfigInit ==
    /\ InitFor({BaseUrlArg, BadBaseUrlArg}, Wordlists(1), {-1, 0, 1},
               {200, 404})
    /\ AuxIdle

ConfigSpec == ConfigInit /\ [][Next]_vars

-----------------------------------------------------------------------------
(* _build_url as a function of the candidate path *)

MaxPathLen == 3

PathTokens == {"/", "..", ".", "admin", "evil", "http:"}

\* candidate strings, each written as tokens in one way only: a scheme can
\* only stand at the start of a string and ".." is never spelled ".", "."
CandidatePaths ==
    {p \in UNION {[1..k -> PathTokens] : k \in 0..MaxPathLen} :
        \A k \in 2..Len(p) : ~IsScheme(p[k]) /\ ~(p[k - 1] = "." /\ p[k] = ".")}

\* no scan is running
ProberIdle == InitWith({<<>>}, {1}, {200})

FnFrame == UNCHANGED <<proberVars, fin, coordVars>>

BuildInit ==
    /\ ProberIdle
    /\ CoordIdle
    /\ fin \in [path : CandidatePaths]
    /\ fout = [done |-> FALSE, url |-> <<>>]

\* url = self._build_url(word)
ApplyBuildUrl ==
    /\ ~fout.done
    /\ fout' = [done |-> TRUE, url |-> BuildUrl(base_url, fin.path)]
    /\ FnFrame

BuildNext == ApplyBuildUrl

BuildSpec == BuildInit /\ [][BuildNext]_vars

-----------------------------------------------------------------------------
(* The detection strategies of core/sqli_scanner.py.                        *)
(* Times are counted in ticks of a tenth of a second. A response body is    *)
(* the sequence of the words and phrases it is made of ("\n" ends a line)   *)
(* together with its length in characters.                                  *)

TicksPerSecond == 10

Seconds(n) == n * TicksPerSecond

\* a variant that takes a delay of exactly ten seconds for High
CalculateTimeConfidence_AtLeastTen(response_time, baseline_time) ==
    LET delay == response_time - baseline_time
    IN  IF delay >= Seconds(10) THEN "High"
        ELSE IF delay > Seconds(5) THEN "Medium"
        ELSE "Low"

CalculateTimeConfidence(response_time, baseline_time) ==
    LET delay == response_time - baseline_time
    IN  IF delay > Seconds(10) THEN "High"
        ELSE IF delay > Seconds(5) THEN "Medium"
        ELSE "Low"

\* a variant that takes a delay of exactly five seconds for significant
SignificantDelay_AtLeastFive(response_time, baseline_time) ==
    response_time >= baseline_time + Seconds(5)

\* if response_time > baseline_time + 5
SignificantDelay(response_time, baseline_time) ==
    response_time > baseline_time + Seconds(5)

Abs(n) == IF n < 0 THEN 0 - n ELSE n

\* a variant that takes a difference of more than 100 from the baseline
\* for a response that is not like the baseline
ResponsesDifferSignificantly_LooseBaseline(resp1, resp2, base) ==
    LET len_diff1 == Abs(resp1.length - base.length)
        len_diff2 == Abs(resp2.length - base.length)
    IN  \/ Abs(resp1.length - resp2.length) > 100
        \/ (len_diff1 < 50 /\ len_diff2 > 100)
        \/ (len_diff2 < 50 /\ len_diff1 > 100)
        \/ resp1.status_code # resp2.status_code

\* a variant without the comparison of the status codes
ResponsesDifferSignificantly_LengthsOnly(resp1, resp2, base) ==
    LET len_diff1 == Abs(resp1.length - base.length)
        len_diff2 == Abs(resp2.length - base.length)
    IN  \/ Abs(resp1.length - resp2.length) > 100
        \/ (len_diff1 < 50 /\ len_diff2 > 200)
        \/ (len_diff2 < 50 /\ len_diff1 > 200)

ResponsesDifferSignificantly(resp1, resp2, base) ==
    LET len_diff1 == Abs(resp1.length - base.length)
        len_diff2 == Abs(resp2.length - base.length)
    IN  \/ Abs(resp1.length - resp2.length) > 100
        \/ (len_diff1 < 50 /\ len_diff2 > 200)
        \/ (len_diff2 < 50 /\ len_diff1 > 200)
        \/ resp1.status_code # resp2.status_code

\* str.lower() word by word: the words that are not lower case already
LowerCase ==
    (".Exception" :> ".exception")
    @@ ("/JDBC" :> "/jdbc")
    @@ ("Driver" :> "driver")
    @@ ("ERROR" :> "error")
    @@ ("Incorrect syntax" :> "incorrect syntax")
    @@ ("MariaDB" :> "mariadb")
    @@ ("Microsoft OLE DB Provider for" :> "microsoft ole db provider for")
    @@ ("MySQL" :> "mysql")
    @@ ("MySqlClient." :> "mysqlclient.")
    @@ ("Npgsql." :> "npgsql.")
    @@ ("ODBC" :> "odbc")
    @@ ("ORA-" :> "ora-")
    @@ ("Oracle" :> "oracle")
    @@ ("PG::SyntaxError" :> "pg::syntaxerror")
    @@ ("PLS-" :> "pls-")
    @@ ("PostgreSQL" :> "postgresql")
    @@ ("Procedure or function" :> "procedure or function")
    @@ ("SQL Server" :> "sql server")
    @@ ("SQL command not properly ended" :> "sql command not properly ended")
    @@ ("SQL syntax" :> "sql syntax")
    @@ ("SQLServer JDBC" :> "sqlserver jdbc")
    @@ ("SQLite" :> "sqlite")
    @@ ("System.Data." :> "system.data.")
    @@ ("Unclosed quotation" :> "unclosed quotation")
    @@ ("Warning" :> "warning")
    @@ ("You have an error in your" :> "you have an error in your")
    @@ ("sql SYNTAX" :> "sql syntax")

Lower(w) == IF w \in DOMAIN LowerCase THEN LowerCase[w] ELSE w

\* the words five digits and a quoted string stand for
Digits5 == {"00933"}

Quoted == {"'x'"}

\* one element of a pattern against one word of the text, re.IGNORECASE
WordMatches(pw, w) ==
    IF pw = "\\d{5}" THEN w \in Digits5
    ELSE IF pw = "'[^']*'" THEN w \in Quoted
    ELSE Lower(pw) = Lower(w)

\* the words of chunk are in text from position i on
ChunkAt(text, i, chunk) ==
    /\ i >= 1
    /\ i + Len(chunk) - 1 <= Len(text)
    /\ \A j \in 1..Len(chunk) : WordMatches(chunk[j], text[i + j - 1])

\* '.' matches everything but the end of a line
SameLine(text, i, j) == \A k \in i..j : text[k] # "\n"

\* a pattern is a literal, a literal followed by .* and a second literal,
\* or these followed by a final .*
Lit(first) == [first |-> first, second |-> <<>>, tail |-> FALSE]

Lit2(first, second) == [first |-> first, second |-> second, tail |-> FALSE]

Lit2Tail(first, second) == [first |-> first, second |-> second, tail |-> TRUE]

\* the places where second may follow first, which starts at position i
SecondAt(text, i, pat) ==
    {j \in (i + Len(pat.first))..Len(text) :
        /\ ChunkAt(text, j, pat.second)
        /\ SameLine(text, i + Len(pat.first), j - 1)}

\* the places where a match of pat starts
Starts(text, pat) ==
    {i \in 1..Len(text) :
        /\ ChunkAt(text, i, pat.first)
        /\ (pat.second # <<>> => SecondAt(text, i, pat) # {})}

Least(S) == CHOOSE n \in S : \A m \in S : n <= m

Greatest(S) == CHOOSE n \in S : \A m \in S : m <= n

NoMatch == [from |-> 0, to |-> 0]

\* re.search(pattern, text, re.IGNORECASE): the leftmost match, every .*
\* as long as it can be
Search(text, pat) ==
    LET starts == Starts(text, pat) IN
    IF starts = {} THEN NoMatch
    ELSE LET i == Least(starts)
             e == IF pat.second = <<>>
                  THEN i + Len(pat.first) - 1
                  ELSE Greatest(SecondAt(text, i, pat)) + Len(pat.second) - 1
             eol == Greatest({k \in e..Len(text) : SameLine(text, e + 1, k)})
         IN  [from |-> i, to |-> IF pat.tail THEN eol ELSE e]

\* self.sql_error_patterns, in the order of the dictionary
Engines == <<"mysql", "mssql", "postgres", "oracle", "sqlite">>

SqlErrorPatterns ==
    [ mysql |-> <<
        Lit2(<<"SQL syntax">>, <<"MySQL">>),
        Lit2Tail(<<"Warning">>, <<"mysql_">>),
        Lit(<<"MySqlClient.">>),
        Lit(<<"mysql_", "fetch">>),
        Lit(<<"You have an error in your", "SQL syntax">>),
        Lit(<<"MySQL", "server version">>),
        Lit(<<"MariaDB", "server version">>),
        Lit(<<"got an error in conversation">>)
      >>,
      mssql |-> <<
        Lit(<<"Microsoft OLE DB Provider for", "SQL Server">>),
        Lit(<<"ODBC", "SQL Server", "Driver">>),
        Lit2(<<"SQL Server">>, <<"Driver">>),
        Lit(<<"SQLServer JDBC", "Driver">>),
        Lit(<<"Incorrect syntax", "near">>),
        Lit(<<"Unclosed quotation", "mark">>),
        Lit(<<"'[^']*'", "expected">>),
        Lit(<<"Procedure or function">>)
      >>,
      postgres |-> <<
        Lit2(<<"PostgreSQL">>, <<"ERROR">>),
        Lit2Tail(<<"Warning">>, <<"pg_">>),
        Lit(<<"valid", "PostgreSQL", "result">>),
        Lit(<<"Npgsql.">>),
        Lit(<<"PG::SyntaxError">>),
        Lit(<<"PostgreSQL", "query failed">>),
        Lit2(<<"relation">>, <<"does not exist">>)
      >>,
      oracle |-> <<
        Lit(<<"ORA-", "\\d{5}">>),
        Lit(<<"Oracle", "error">>),
        Lit2(<<"Oracle">>, <<"Driver">>),
        Lit2Tail(<<"Warning">>, <<"oci_">>),
        Lit(<<"ORA-">>),
        Lit(<<"PLS-">>),
        Lit(<<"SQL command not properly ended">>)
      >>,
      sqlite |-> <<
        Lit(<<"SQLite", "/JDBC", "Driver">>),
        Lit(<<"SQLite", ".Exception">>),
        Lit(<<"System.Data.", "SQLite">>),
        Lit(<<"SQLite", "error">>),
        Lit(<<"no such", "table">>),
        Lit(<<"no such", "column">>)
      >>]

\* the (engine, pattern) pairs whose pattern is found in the text
Hits(text) ==
    {h \in {<<e, p>> : e \in 1..Len(Engines), p \in 1..8} :
        /\ h[2] <= Len(SqlErrorPatterns[Engines[h[1]]])
        /\ Search(text, SqlErrorPatterns[Engines[h[1]]][h[2]]) # NoMatch}

NoError == [db_type |-> "None", error_msg |-> <<>>]

\* _detect_sql_error: the first pattern of the first engine that matches,
\* and the text it matches
DetectSqlError(text) ==
    LET hits == Hits(text) IN
    IF hits = {} THEN NoError
    ELSE LET h == CHOOSE x \in hits :
                      \A y \in hits :
                          x[1] < y[1] \/ (x[1] = y[1] /\ x[2] <= y[2])
             m == Search(text, SqlErrorPatterns[Engines[h[1]]][h[2]])
         IN  [db_type |-> Engines[h[1]],
              error_msg |-> SubSeq(text, m.from, m.to)]

\* indicator.lower() in error_msg.lower()
Contains(msg, words) ==
    \E i \in 1..Len(msg) :
        /\ i + Len(words) - 1 <= Len(msg)
        /\ \A j \in 1..Len(words) : Lower(words[j]) = Lower(msg[i + j - 1])

high_confidence ==
    <<<<"SQL syntax">>, <<"ORA-">>, <<"unclosed quotation">>, <<"incorrect syntax">>>>

CalculateErrorConfidence(error_msg) ==
    IF \E k \in 1..Len(high_confidence) : Contains(error_msg, high_confidence[k])
    THEN "High"
    ELSE "Medium"

-----------------------------------------------------------------------------
(* The strategies as functions of the responses they are given *)

\* ticks of the baseline and of the mutated request
MaxBaselineTime == 30

MaxResponseTime == 140

TimingInit ==
    /\ ProberIdle
    /\ CoordIdle
    /\ fin \in [baseline_time : 0..MaxBaselineTime,
                response_time : 0..MaxResponseTime]
    /\ fout = [done |-> FALSE, vulnerable |-> FALSE, confidence |-> "None"]

\* one pass through the body of the payload loop of _test_time_based
ApplyTimeCheck ==
    /\ ~fout.done
    /\ fout' = IF SignificantDelay(fin.response_time, fin.baseline_time)
               THEN [done |-> TRUE, vulnerable |-> TRUE,
                     confidence |-> CalculateTimeConfidence(
                                        fin.response_time, fin.baseline_time)]
               ELSE [done |-> TRUE, vulnerable |-> FALSE,
                     confidence |-> "None"]
    /\ FnFrame

TimingNext == ApplyTimeCheck

TimingSpec == TimingInit /\ [][TimingNext]_vars

\* lengths around a page of a thousand characters, at the thresholds
LengthOffsets ==
    {-300, -201, -200, -199, -101, -100, -51, -50, -49, 0, 5, 49, 50, 51,
     100, 101, 199, 200, 201, 300}

BodyLengths == {1000 + d : d \in LengthOffsets}

BooleanInit ==
    /\ ProberIdle
    /\ CoordIdle
    /\ fin \in [baseline : [length : {700, 1000, 1250}, status_code : {200}],
                true_response : [length : BodyLengths,
                                 status_code : {200, 500}],
                false_response : [length : BodyLengths,
                                  status_code : {200, 500}]]
    /\ fout = [done |-> FALSE, vulnerable |-> FALSE, confidence |-> "None"]

\* the comparison of the two responses in _test_boolean_based
ApplyBooleanCheck ==
    /\ ~fout.done
    /\ fout' = IF ResponsesDifferSignificantly(fin.true_response,
                                               fin.false_response,
                                               fin.baseline)
               THEN [done |-> TRUE, vulnerable |-> TRUE,
                     confidence |-> "High"]
               ELSE [done |-> TRUE, vulnerable |-> FALSE,
                     confidence |-> "None"]
    /\ FnFrame

BooleanNext == ApplyBooleanCheck

BooleanSpec == BooleanInit /\ [][BooleanNext]_vars

\* response bodies of a few words
MaxBodyLen == 3

BodyWords ==
    {"You have an error in your", "SQL syntax", "sql SYNTAX", "MySQL",
     "MySqlClient.", "ORA-", "00933", "Oracle", "error", "Driver", "SQLite",
     "\n"}

Bodies == UNION {[1..k -> BodyWords] : k \in 0..MaxBodyLen}

ErrorInit ==
    /\ ProberIdle
    /\ CoordIdle
    /\ fin \in [text : Bodies]
    /\ fout = [done |-> FALSE, db_type |-> "None", error_msg |-> <<>>,
               confidence |-> "None"]

\* the check of one response in _test_error_based
ApplyDetectSqlError ==
    /\ ~fout.done
    /\ LET found == DetectSqlError(fin.text)
       IN  fout' = [done |-> TRUE,
                    db_type |-> found.db_type,
                    error_msg |-> found.error_msg,
                    confidence |-> IF found.db_type # "None"
                                   THEN CalculateErrorConfidence(found.error_msg)
                                   ELSE "None"]
    /\ FnFrame

ErrorNext == ApplyDetectSqlError

ErrorSpec == ErrorInit /\ [][ErrorNext]_vars

-----------------------------------------------------------------------------
(* The injection scanners: SQLiScanner.scan and XSSScanner.scan run on one  *)
(* URL, single-threaded, one transport request after the other.             *)

\* query parameters of the scanned URL
MaxQuery == 2

\* the payload loops stop after this many payloads
ErrorPayloadCap == 15

TimePayloadCap == 10

XssUrlPayloadCap == 20

XssFormPayloadCap == 10

ParamPairs == {<<n, v>> : n \in {"id", "q"}, v \in {"1", ""}}

Queries == UNION {[1..k -> ParamPairs] : k \in 0..MaxQuery}

\* the k-th smallest element of a set of numbers
Kth(S, k) == CHOOSE i \in S : Cardinality({j \in S : j < i}) = k - 1

\* the keys of parse_qs(parsed.query): the names that have a value which is
\* not blank, in the order of their first such value
ParamNames(query) ==
    LET first == {i \in 1..Len(query) :
                     /\ query[i][2] # ""
                     /\ \A j \in 1..(i - 1) :
                            query[j][2] = "" \/ query[j][1] # query[i][1]}
    IN  [k \in 1..Cardinality(first) |-> query[Kth(first, k)][1]]

params == ParamNames(target.query)

\* the lengths of self.error_payloads[:15], self.time_payloads[:10],
\* self.payloads[:20] and self.payloads[:10]
\* a variant that goes through the whole list: self.error_payloads
ErrorPayloads_Uncapped == target.error_payloads

\* self.error_payloads[:15]
ErrorPayloads == Min(target.error_payloads, ErrorPayloadCap)

TimePayloads == Min(target.time_payloads, TimePayloadCap)

XssUrlPayloads == Min(target.xss_payloads, XssUrlPayloadCap)

XssFormPayloads == Min(target.xss_payloads, XssFormPayloadCap)

\* what the transport answers to a request of a scanner
PlainResponse ==
    [kind |-> "response", status_code |-> 200, text |-> <<>>,
     length |-> 1000, elapsed |-> 3]

ScanResponses ==
    {PlainResponse,
     [PlainResponse EXCEPT !.text = <<"You have an error in your",
                                      "SQL syntax">>],
     [PlainResponse EXCEPT !.text = <<"Oracle", "error">>],
     [PlainResponse EXCEPT !.elapsed = 65],
     [PlainResponse EXCEPT !.elapsed = 113],
     [PlainResponse EXCEPT !.length = 1300],
     [PlainResponse EXCEPT !.status_code = 500]}

NoResponse ==
    [kind |-> "none", status_code |-> 0, text |-> <<>>, length |-> 0,
     elapsed |-> 0]

RaisedError == [NoResponse EXCEPT !.kind = "raise"]

ScanAnswers == ScanResponses \cup {NoResponse, RaisedError}

Strategies == {"error", "time", "boolean", "reflected"}

\* where a scan stands: in which loop, at which form, parameter and payload
At(loop, p, k) == [pc |-> loop, f |-> 0, p |-> p, k |-> k]

AtForm(f, p, k) == [pc |-> "xss_form", f |-> f, p |-> p, k |-> k]

Done == At("done", 0, 0)

\* the requests counted by strategy and parameter (of a form: by form and
\* input)
SentKeys ==
    (Strategies \X (1..MaxQuery)) \cup ({"form"} \X (1..2) \X (1..2))

Count(key) == [sent EXCEPT ![key] = @ + 1]

Finding(subtype, p, k, confidence, database) ==
    [type |-> "SQL Injection", subtype |-> subtype, parameter |-> params[p],
     payload |-> k, confidence |-> confidence, database |-> database]

\* boolean_vulns = self._test_boolean_based(url, baseline)
StartBoolean ==
    IF Len(params) > 0 THEN At("boolean_true", 1, 0) ELSE Done

\* time_vulns = self._test_time_based(url, baseline)
StartTime ==
    IF Len(params) > 0 /\ TimePayloads > 0 THEN At("time", 1, 1)
    ELSE StartBoolean

\* a variant that runs the blind strategies whatever the first one found
AfterError_Always(error_vulns) == StartTime

\* if not error_vulns: only then the other strategies are run
AfterError(error_vulns) ==
    IF error_vulns # <<>> THEN Done ELSE StartTime

\* error_vulns = self._test_error_based(url, baseline)
StartError ==
    IF Len(params) > 0 /\ ErrorPayloads > 0 THEN At("error", 1, 1)
    ELSE AfterError(<<>>)

\* a variant of the payload loops without the break
NextPayload_NoBreak(loop, p, k, cap, found, after) ==
    IF k < cap THEN At(loop, p, k + 1)
    ELSE IF p < Len(params) THEN At(loop, p + 1, 1)
    ELSE after

\* the next payload of the parameter, after a finding (break) or the last
\* payload the next parameter, after the last parameter the end of the loops
NextPayload(loop, p, k, cap, found, after) ==
    IF ~found /\ k < cap THEN At(loop, p, k + 1)
    ELSE IF p < Len(params) THEN At(loop, p + 1, 1)
    ELSE after

\* the next parameter of the loop of _test_boolean_based
NextBoolean(p) ==
    IF p < Len(params) THEN At("boolean_true", p + 1, 0) ELSE Done

CoordFrame == UNCHANGED <<proberVars, fin, fout, target>>

\* a variant that goes on with the first strategy without a baseline
SqliBaseline_Unchecked ==
    /\ co.pc = "sqli"
    /\ \E answer \in {PlainResponse, NoResponse, RaisedError} :
           /\ baseline' = answer
           /\ co' = IF answer.kind = "raise" THEN Done ELSE StartError
    /\ UNCHANGED <<true_response, vulnerabilities, sent>>
    /\ CoordFrame

\* baseline = self.client.get(url); if not baseline: return vulnerabilities
SqliBaseline ==
    /\ co.pc = "sqli"
    /\ \E answer \in {PlainResponse, NoResponse, RaisedError} :
           /\ baseline' = answer
           /\ co' = IF answer.kind = "response" THEN StartError ELSE Done
    /\ UNCHANGED <<true_response, vulnerabilities, sent>>
    /\ CoordFrame

\* one pass through the payload loop of _test_error_based
SqliErrorProbe ==
    /\ co.pc = "error"
    /\ \E answer \in ScanAnswers :
           LET detected == DetectSqlError(answer.text)
               found == answer.kind = "response" /\ detected.db_type # "None"
               vulns == IF found
                        THEN Append(vulnerabilities,
                                    Finding("Error-Based", co.p, co.k,
                                            CalculateErrorConfidence(
                                                detected.error_msg),
                                            detected.db_type))
                        ELSE vulnerabilities
           IN  /\ vulnerabilities' = vulns
               /\ co' = NextPayload("error", co.p, co.k, ErrorPayloads, found,
                                    AfterError(vulns))
    /\ sent' = Count(<<"error", co.p>>)
    /\ UNCHANGED <<baseline, true_response>>
    /\ CoordFrame

\* one pass through the payload loop of _test_time_based
SqliTimeProbe ==
    /\ co.pc = "time"
    /\ \E answer \in ScanAnswers :
           LET found == /\ answer.kind = "response"
                        /\ SignificantDelay(answer.elapsed, baseline.elapsed)
           IN  /\ vulnerabilities' =
                      IF found
                      THEN Append(vulnerabilities,
                                  Finding("Time-Based Blind", co.p, co.k,
                                          CalculateTimeConfidence(
                                              answer.elapsed, baseline.elapsed),
                                          "None"))
                      ELSE vulnerabilities
               /\ co' = NextPayload("time", co.p, co.k, TimePayloads, found,
                                    StartBoolean)
    /\ sent' = Count(<<"time", co.p>>)
    /\ UNCHANGED <<baseline, true_response>>
    /\ CoordFrame

\* a variant in which a failed request ends the loop over the parameters
SqliBooleanTrue_AbortsOnFailure ==
    /\ co.pc = "boolean_true"
    /\ \E answer \in ScanAnswers :
           /\ true_response' = IF answer.kind = "response"
                               THEN answer
                               ELSE NoResponse
           /\ co' = IF answer.kind = "response"
                    THEN At("boolean_false", co.p, 0)
                    ELSE Done
    /\ sent' = Count(<<"boolean", co.p>>)
    /\ UNCHANGED <<baseline, vulnerabilities>>
    /\ CoordFrame

\* true_response = self.client.get(true_url); if not true_response: continue
SqliBooleanTrue ==
    /\ co.pc = "boolean_true"
    /\ \E answer \in ScanAnswers :
           /\ true_response' = IF answer.kind = "response"
                               THEN answer
                               ELSE NoResponse
           /\ co' = IF answer.kind = "response"
                    THEN At("boolean_false", co.p, 0)
                    ELSE NextBoolean(co.p)
    /\ sent' = Count(<<"boolean", co.p>>)
    /\ UNCHANGED <<baseline, vulnerabilities>>
    /\ CoordFrame

\* false_response = self.client.get(false_url) and the comparison
SqliBooleanFalse ==
    /\ co.pc = "boolean_false"
    /\ \E answer \in ScanAnswers :
           vulnerabilities' =
               IF /\ answer.kind = "response"
                  /\ ResponsesDifferSignificantly(true_response, answer,
                                                  baseline)
               THEN Append(vulnerabilities,
                           Finding("Boolean-Based Blind", co.p, 0, "High",
                                   "None"))
               ELSE vulnerabilities
    /\ co' = NextBoolean(co.p)
    /\ sent' = Count(<<"boolean", co.p>>)
    /\ true_response' = NoResponse
    /\ UNCHANGED baseline
    /\ CoordFrame

\* every payload of the XSS list is this string of characters
XssPayload == <<"<", "b", ">">>

\* needle in text
InText(needle, text) ==
    \E i \in 1..(Len(text) + 1) :
        /\ i + Len(needle) - 1 <= Len(text)
        /\ SubSeq(text, i, i + Len(needle) - 1) = needle

\* payload.replace('<', lt).replace('>', gt)
RECURSIVE ReplaceAngles(_, _, _)
ReplaceAngles(payload, lt, gt) ==
    IF Len(payload) = 0 THEN <<>>
    ELSE (IF payload[1] = "<" THEN lt
          ELSE IF payload[1] = ">" THEN gt
          ELSE <<payload[1]>>)
         \o ReplaceAngles(Tail(payload), lt, gt)

HtmlEncoded(payload) ==
    ReplaceAngles(payload, <<"&", "l", "t", ";">>, <<"&", "g", "t", ";">>)

UrlEncoded(payload) ==
    ReplaceAngles(payload, <<"%", "3", "C">>, <<"%", "3", "E">>)

UnicodeEscaped(payload) ==
    ReplaceAngles(payload, <<"\\", "u", "0", "0", "3", "C">>,
                  <<"\\", "u", "0", "0", "3", "E">>)

\* payload[:n]
Prefix(payload, n) == SubSeq(payload, 1, Min(n, Len(payload)))

\* payload[-n:]
Suffix(payload, n) ==
    SubSeq(payload, Len(payload) - Min(n, Len(payload)) + 1, Len(payload))

\* a variant that applies the partial-reflection test to every payload
IsXssReflected_AnyLength(payload, text) ==
    \/ InText(payload, text)
    \/ InText(HtmlEncoded(payload), text)
    \/ InText(UrlEncoded(payload), text)
    \/ InText(UnicodeEscaped(payload), text)
    \/ /\ InText(Prefix(payload, 5), text)
       /\ InText(Suffix(payload, 5), text)

\* _is_xss_reflected(payload, response)
IsXssReflected(payload, text) ==
    \/ InText(payload, text)
    \/ InText(HtmlEncoded(payload), text)
    \/ InText(UrlEncoded(payload), text)
    \/ InText(UnicodeEscaped(payload), text)
    \/ /\ Len(payload) > 10
       /\ InText(Prefix(payload, 5), text)
       /\ InText(Suffix(payload, 5), text)

\* a form of a page: what _extract_forms takes from it
Form(action, method, inputs) ==
    [action |-> action, method |-> method, inputs |-> inputs]

\* a fetched page: its forms and the DOM sinks its scripts use, each sink
\* with the text the pattern matches
Page(forms, sinks) ==
    [kind |-> "response", status_code |-> 200, text |-> <<>>,
     length |-> 1000, elapsed |-> 3, forms |-> forms, sinks |-> sinks]

Sink(name, context) == [sink |-> name, context |-> context]

XssPages ==
    {Page(<<>>, <<>>),
     Page(<<Form(<<>>, "GET", <<"q">>)>>,
          <<Sink("document.write", <<"document.", "write(x)">>)>>),
     Page(<<Form(<<"search">>, "POST", <<"q">>)>>,
          <<Sink("innerHTML", <<"innerHTML", "=">>),
            Sink("location assignment", <<"location", ".href", "=">>)>>),
     Page(<<Form(<<"http:", "/", "/", "target", "/", "s">>, "POST",
                 <<"q", "q">>),
            Form(<<>>, "GET", <<>>)>>,
          <<>>),
     Page(<<Form(<<"http:", "/", "/", "target", "/", "s">>, "POST", <<"q">>),
            Form(<<"search">>, "GET", <<"r">>)>>,
          <<Sink("document.write", <<"document.", "write(x)">>)>>)}

\* what the transport answers to a request that carries a payload
XssAnswers ==
    {PlainResponse,
     [PlainResponse EXCEPT !.text = <<"a">> \o XssPayload],
     [PlainResponse EXCEPT !.text = HtmlEncoded(XssPayload)],
     NoResponse, RaisedError}

XssFinding(subtype, parameter, k) ==
    [type |-> "XSS", subtype |-> subtype, parameter |-> parameter,
     payload |-> k]

\* if any(indicator in context.lower() for indicator in [...])
ReachesSink(context) ==
    \E w \in {"location", "document.", "window."} :
        \E i \in 1..Len(context) : Lower(context[i]) = w

\* _check_dom_xss(response.text): one finding for every sink that user input
\* might reach
RECURSIVE DomFindings(_)
DomFindings(sinks) ==
    IF Len(sinks) = 0 THEN <<>>
    ELSE (IF ReachesSink(sinks[1].context)
          THEN <<[type |-> "XSS", subtype |-> "DOM-based",
                  sink |-> sinks[1].sink, confidence |-> "Medium"]>>
          ELSE <<>>)
         \o DomFindings(Tail(sinks))

\* action_url = urljoin(base_url, action_url): the name urljoin is not
\* defined in xss_scanner.py
NeedsUrlJoin(form) ==
    /\ Len(form.action) > 0
    /\ ~(IsScheme(form.action[1]) /\ Len(form.action) >= 3
         /\ form.action[2] = "/" /\ form.action[3] = "/")

\* the form loop of _test_forms from form f on: a form without inputs is
\* passed over, a form whose action must be joined to the base URL ends the
\* scan in the except clause of scan() with a NameError
RECURSIVE EnterForm(_, _)
EnterForm(forms, f) ==
    IF f > Len(forms) THEN At("xss_dom", 0, 0)
    ELSE IF Len(forms[f].inputs) = 0 \/ XssFormPayloads = 0
    THEN EnterForm(forms, f + 1)
    ELSE IF NeedsUrlJoin(forms[f]) THEN Done
    ELSE AtForm(f, 1, 1)

\* url_vulns = self._test_url_parameters(url)
StartXssUrl(page) ==
    IF Len(params) > 0 /\ XssUrlPayloads > 0 THEN At("xss_url", 1, 1)
    ELSE EnterForm(page.forms, 1)

\* response = self.client.get(url); if not response: return vulnerabilities
XssPage ==
    /\ co.pc = "xss"
    /\ \E answer \in XssPages \cup {NoResponse, RaisedError} :
           /\ baseline' = answer
           /\ co' = IF answer.kind = "response" THEN StartXssUrl(answer)
                    ELSE Done
    /\ UNCHANGED <<true_response, vulnerabilities, sent>>
    /\ CoordFrame

\* one pass through the payload loop of _test_url_parameters
XssUrlProbe ==
    /\ co.pc = "xss_url"
    /\ \E answer \in XssAnswers :
           LET found == /\ answer.kind = "response"
                        /\ IsXssReflected(XssPayload, answer.text)
           IN  /\ vulnerabilities' =
                      IF found
                      THEN Append(vulnerabilities,
                                  XssFinding("Reflected", params[co.p], co.k))
                      ELSE vulnerabilities
               /\ co' = NextPayload("xss_url", co.p, co.k, XssUrlPayloads,
                                    found, EnterForm(baseline.forms, 1))
    /\ sent' = Count(<<"reflected", co.p>>)
    /\ UNCHANGED <<baseline, true_response>>
    /\ CoordFrame

\* the findings of the form loop are in a list of _test_forms, which is lost
\* when _test_form raises: vulnerabilities.extend(form_vulns) is not reached
WithoutFormFindings(vulns) ==
    SelectSeq(vulns, LAMBDA v : v.subtype # "Form-based")

\* one pass through the payload loop of _test_form
XssFormProbe ==
    /\ co.pc = "xss_form"
    /\ LET form == baseline.forms[co.f] IN
       \E answer \in XssAnswers :
           LET found == /\ answer.kind = "response"
                        /\ IsXssReflected(XssPayload, answer.text)
               form_vulns == IF found
                             THEN Append(vulnerabilities,
                                         XssFinding("Form-based",
                                                    form.inputs[co.p], co.k))
                             ELSE vulnerabilities
               next == IF ~found /\ co.k < XssFormPayloads
                       THEN AtForm(co.f, co.p, co.k + 1)
                       ELSE IF co.p < Len(form.inputs)
                       THEN AtForm(co.f, co.p + 1, 1)
                       ELSE EnterForm(baseline.forms, co.f + 1)
           IN  /\ vulnerabilities' = IF next = Done
                                     THEN WithoutFormFindings(form_vulns)
                                     ELSE form_vulns
               /\ co' = next
    /\ sent' = Count(<<"form", co.f, co.p>>)
    /\ UNCHANGED <<baseline, true_response>>
    /\ CoordFrame

\* dom_vulns = self._check_dom_xss(response.text)
XssDom ==
    /\ co.pc = "xss_dom"
    /\ vulnerabilities' = vulnerabilities \o DomFindings(baseline.sinks)
    /\ co' = Done
    /\ UNCHANGED <<baseline, true_response, sent>>
    /\ CoordFrame

\* the lengths of a payload list: a short list, and for a query of one
\* name=value pair at most also a list that is longer than the loop takes
ListLengths(q, cap) ==
    IF Len(q) <= 1 THEN {2, cap + 1} ELSE {2}

\* a scan of one URL by one of the two scanners; the payload lists are what
\* the word list manager hands to the constructor
ScanInit ==
    /\ ProberIdle
    /\ FnIdle
    /\ \E q \in Queries :
          \/ /\ \E e \in ListLengths(q, ErrorPayloadCap),
                    t \in ListLengths(q, TimePayloadCap) :
                    target = [query |-> q, error_payloads |-> e,
                              time_payloads |-> t, xss_payloads |-> 0]
             /\ co = At("sqli", 0, 0)
          \/ /\ \E x \in ListLengths(q, XssUrlPayloadCap) :
                    target = [query |-> q, error_payloads |-> 0,
                              time_payloads |-> 0, xss_payloads |-> x]
             /\ co = At("xss", 0, 0)
    /\ baseline = NoResponse
    /\ true_response = NoResponse
    /\ vulnerabilities = <<>>
    /\ sent = [key \in SentKeys |-> 0]

ScanNext ==
    \/ SqliBaseline
    \/ SqliErrorProbe
    \/ SqliTimeProbe
    \/ SqliBooleanTrue
    \/ SqliBooleanFalse
    \/ XssPage
    \/ XssUrlProbe
    \/ XssFormProbe
    \/ XssDom

ScanSpec == ScanInit /\ [][ScanNext]_vars

-----------------------------------------------------------------------------
(* The reflection test of core/xss_scanner.py on its own *)

\* '<script>alert(1)</script>'
ScriptPayload ==
    <<"<", "s", "c", "r", "i", "p", "t", ">", "a", "l", "e", "r", "t", "(",
      "1", ")", "<", "/", "s", "c", "r", "i", "p", "t", ">">>

\* '<i>abc</i>', of 10 characters, and '<i>abcd</i>', of 11
TenPayload == <<"<", "i", ">", "a", "b", "c", "<", "/", "i", ">">>

ElevenPayload == <<"<", "i", ">", "a", "b", "c", "d", "<", "/", "i", ">">>

ReflectPayloads == {XssPayload, TenPayload, ElevenPayload, ScriptPayload}

\* what a page can do with a payload it echoes: leave it, encode it in one
\* of three ways, encode only its first character, cut it
Pieces(payload) ==
    {payload, HtmlEncoded(payload), UrlEncoded(payload),
     UnicodeEscaped(payload),
     <<"&", "l", "t", ";">> \o Tail(payload),
     Prefix(payload, 5),
     Suffix(payload, 5),
     Prefix(payload, 4),
     <<"x">>}

\* a response body is made of at most this many pieces
MaxPieces == 2

RECURSIVE Concat(_)
Concat(pieces) ==
    IF Len(pieces) = 0 THEN <<>>
    ELSE pieces[1] \o Concat(Tail(pieces))

ReflectBodies(payload) ==
    {Concat(ps) : ps \in UNION {[1..k -> Pieces(payload)] : k \in 0..MaxPieces}}

ReflectInit ==
    /\ ProberIdle
    /\ CoordIdle
    /\ \E payload \in ReflectPayloads :
           fin \in [payload : {payload}, text : ReflectBodies(payload)]
    /\ fout = [done |-> FALSE, reflected |-> FALSE]

\* self._is_xss_reflected(payload, response)
ApplyIsXssReflected ==
    /\ ~fout.done
    /\ fout' = [done |-> TRUE,
                reflected |-> IsXssReflected(fin.payload, fin.text)]
    /\ FnFrame

ReflectNext == ApplyIsXssReflected

ReflectSpec == ReflectInit /\ [][ReflectNext]_vars

-----------------------------------------------------------------------------
(* The probe URLs of core/sqli_scanner.py. A query string is the sequence   *)
(* of its name=value pairs, names and values as parse_qs decodes them.      *)

ProbePairs == {<<n, v>> : n \in {"id", "q", "page"}, v \in {"1", "2", ""}}

ProbeQueries == UNION {[1..k -> ProbePairs] : k \in 0..MaxQuery}

\* the payload of the probe
TestPayload == "' AND '1'='1' -- "

\* parse_qs(parsed.query)[name]: the values of the name that are not blank
ValuesOf(query, name) ==
    LET kept == SelectSeq(query, LAMBDA pair : pair[1] = name /\ pair[2] # "")
    IN  [k \in 1..Len(kept) |-> kept[k][2]]

\* urlencode(test_params, doseq=True) from the k-th key on: one pair for
\* the parameter under test, one pair per value for every other key
RECURSIVE EncodeFrom(_, _, _, _)
EncodeFrom(query, names, k, param_name) ==
    IF k > Len(names) THEN <<>>
    ELSE (IF names[k] = param_name
          THEN <<<<param_name, TestPayload>>>>
          ELSE LET values == ValuesOf(query, names[k])
               IN  [j \in 1..Len(values) |-> <<names[k], values[j]>>])
         \o EncodeFrom(query, names, k + 1, param_name)

\* _build_test_url(parsed, params, param_name, payload): the query of the
\* probe URL
BuildTestUrl(query, param_name) ==
    EncodeFrom(query, ParamNames(query), 1, param_name)

ProbeUrlInit ==
    /\ ProberIdle
    /\ CoordIdle
    /\ fin \in [query : ProbeQueries]
    /\ fout = [done |-> FALSE, probes |-> <<>>]

\* one iteration of `for param_name in params`
BuildProbe ==
    /\ ~fout.done
    /\ Len(fout.probes) < Len(ParamNames(fin.query))
    /\ LET param_name == ParamNames(fin.query)[Len(fout.probes) + 1]
       IN  fout' = [fout EXCEPT !.probes =
                       Append(@, [parameter |-> param_name,
                                  query |-> BuildTestUrl(fin.query,
                                                         param_name)])]
    /\ FnFrame

\* the loop is over: return vulnerabilities
EndProbes ==
    /\ ~fout.done
    /\ Len(fout.probes) = Len(ParamNames(fin.query))
    /\ fout' = [fout EXCEPT !.done = TRUE]
    /\ FnFrame

ProbeUrlNext == BuildProbe \/ EndProbes

ProbeUrlSpec == ProbeUrlInit /\ [][ProbeUrlNext]_vars

-----------------------------------------------------------------------------
(* NidhzScanner.run of core/scanner.py from the vulnerability step on.      *)
(* The URLs are numbered: 0 is the configured target, 1, 2, ... are the     *)
(* URLs of the directories the path prober returned, in the order of its    *)
(* list.                                                                    *)

\* the prober returns at most this many directories
MaxFound == 11

\* directories[:10]
TopDirectories == 10

\* every scan is one step of the run
RunInit ==
    /\ ProberIdle
    /\ CoordIdle
    /\ fin \in [found : 0..MaxFound, skip_vuln : BOOLEAN, loaders : BOOLEAN]
    /\ fout = [pc |-> "run", urls_to_scan |-> <<>>, xss |-> <<>>,
               sqli |-> <<>>]

\* urls_to_scan = [self.config.target];
\* urls_to_scan.extend([d['url'] for d in directories[:10]])
UrlsToScan(found) == [i \in 1..(Min(found, TopDirectories) + 1) |-> i - 1]

\* if not self.config.skip_vuln: self._scan_vulnerabilities(directories)
ScanVulnerabilities ==
    /\ fout.pc = "run"
    /\ fout' = IF fin.skip_vuln
               THEN [fout EXCEPT !.pc = "done"]
               ELSE [fout EXCEPT !.pc = "xss",
                                 !.urls_to_scan = UrlsToScan(fin.found)]
    /\ FnFrame

\* xss_vulns = xss_scanner.scan(url)
XssScanUrl ==
    /\ fout.pc = "xss"
    /\ Len(fout.xss) < Len(fout.urls_to_scan)
    /\ fout' = [fout EXCEPT
                   !.xss = Append(@, fout.urls_to_scan[Len(fout.xss) + 1])]
    /\ FnFrame

\* sqli_scanner = SQLiScanner(self.http_client, self.logger): the
\* constructor asks the word list manager for the time and the boolean
\* payloads, which the manager of utils/wordlist_manager.py cannot load
ConstructSqliScanner ==
    /\ fout.pc = "xss"
    /\ Len(fout.xss) = Len(fout.urls_to_scan)
    /\ fout' = [fout EXCEPT !.pc = IF fin.loaders THEN "sqli" ELSE "raised"]
    /\ FnFrame

\* sqli_vulns = sqli_scanner.scan(url)
SqliScanUrl ==
    /\ fout.pc = "sqli"
    /\ Len(fout.sqli) < Len(fout.urls_to_scan)
    /\ fout' = [fout EXCEPT
                   !.sqli = Append(@, fout.urls_to_scan[Len(fout.sqli) + 1])]
    /\ FnFrame

\* the loops are over: self._generate_reports()
GenerateReports ==
    /\ fout.pc = "sqli"
    /\ Len(fout.sqli) = Len(fout.urls_to_scan)
    /\ fout' = [fout EXCEPT !.pc = "done"]
    /\ FnFrame

RunNext ==
    \/ ScanVulnerabilities
    \/ XssScanUrl
    \/ ConstructSqliScanner
    \/ SqliScanUrl
    \/ GenerateReports

RunSpec == RunInit /\ [][RunNext]_vars

-----------------------------------------------------------------------------
(* Properties of the path prober *)

UrlOf(i) == BuildUrl(base_url, wordlist[i])

Answer(i) == transport[UrlOf(i)]

Failed(i) == Answer(i).kind \in {"none", "raise"}

\* the classification table of the design: retained status codes
Retained(status) ==
    \/ status = 200 \/ status = 201 \/ status = 204
    \/ status = 301 \/ status = 302 \/ status = 303
    \/ status = 307 \/ status = 308
    \/ status = 401 \/ status = 403
    \/ ~(status < 500)

Answered(i) == Answer(i).kind = "response" /\ Retained(Answer(i).status)

FoundUrls == {results[k].url : k \in 1..Len(results)}

Issued == Cardinality({i \in 1..N : requests[i] > 0})

\* C1: when scan() has returned (no interrupt), stats['total'] equals the
\* length of the candidate list.
C1_TotalIssued == pc = "done" => stats.total = Len(wordlist)

C1_Witness == pc = "done" /\ Len(wordlist) >= 2 /\ stats.total >= 2

\* C2: a probed candidate is in the returned found list, with the status of
\* its response, exactly if that status is in {200,201,204},
\* {301,302,303,307,308}, {401,403} or is at least 500.
C2_FoundIffInteresting ==
    pc = "done" =>
        /\ \A i \in 1..N : (UrlOf(i) \in FoundUrls) <=> Answered(i)
        /\ \A k \in 1..Len(results) :
               /\ transport[results[k].url].kind = "response"
               /\ transport[results[k].url].status = results[k].status_code

C2_Witness ==
    /\ pc = "done"
    /\ Len(results) = 1
    /\ results[1].status_code = 500

\* C3: after a completed run stats['errors'] equals the number of candidates
\* whose request failed (the transport raised or returned no response).
C3_ErrorsCounted ==
    pc = "done" => stats.errors = Cardinality({i \in 1..N : Failed(i)})

\* C4: failing requests never abort the batch: scan() only fails on an
\* interrupt, an empty word list or a pool that cannot be created, and when it
\* returns every candidate was requested once and aggregated and the results
\* are exactly the retained answers of the candidates that did not fail.
C4_FailuresDoNotAbort ==
    /\ pc = "raised" => (interrupted \/ N = 0 \/ threads <= 0)
    /\ pc = "done" =>
          /\ \A i \in 1..N : requests[i] = 1 /\ i \in yielded
          /\ FoundUrls = {UrlOf(i) : i \in {j \in 1..N : Answered(j)}}

C4_Witness ==
    /\ pc = "done"
    /\ \E i, j \in 1..N : Failed(i) /\ Answered(j)
    /\ Len(results) >= 1

C6_BoundedInFlight ==
    /\ threads = Min(requested, 200)
    /\ InFlight <= (IF threads > 0 THEN threads ELSE 0)

C6_Witness ==
    /\ threads >= 1
    /\ InFlight = threads
    /\ \E i \in 1..N : task[i] = "queued"

\* C7: a request that never completes does not stall the aggregation: the
\* scan still returns, with that candidate counted as an error.
C7_HungRequestTimesOut ==
    (\E i \in 1..N : task[i] = "running" /\ Answer(i).kind = "hang")
        ~> (interrupted \/ (pc = "done" /\ stats.errors >= 1))

\* C8: after a user interrupt no queued candidate is dispatched to the
\* transport any more, and scan() does not fail because of the interrupt.
C8_StopDispatchesNothing ==
    /\ [][interrupted =>
            \A i \in 1..N : task[i] = "queued" => task'[i] = "queued"]_vars
    /\ [](exc # "KeyboardInterrupt")

\* C9: a step of a pool worker never writes self.stats or self.results;
\* they change only in a step of the aggregation loop.
C9_SingleWriter ==
    [][/\ (\E i \in 1..N : task[i] \in {"queued", "running"}
                           /\ task'[i] # task[i])
            => (stats' = stats /\ results' = results)
       /\ (stats' # stats \/ results' # results)
            => (pc \in {"collect", "update"} /\ pc' # pc)]_vars

C9_Witness ==
    /\ pc = "collect"
    /\ \E i, j \in 1..N :
          /\ task[i] = "finished" /\ future[i].kind = "result"
          /\ i \notin yielded
          /\ task[j] = "running"

\* C10: the counters and the set of found URLs of a completed run are a
\* function of the candidate list and of the transport's answers alone,
\* whatever the thread count and the interleaving of the workers.
C10_Deterministic ==
    pc = "done" =>
        /\ stats.found = Cardinality({i \in 1..N : Answered(i)})
        /\ stats.errors = 0
        /\ FoundUrls = {UrlOf(i) : i \in {j \in 1..N : Answered(j)}}

C10_Witness ==
    /\ pc = "done"
    /\ threads >= 2
    /\ Len(order) = 2 /\ order[1] = 2
    /\ stats.found >= 1

\* C11: for every candidate path the URL built by _build_url starts with the
\* base URL followed by "/", that is, it stays under the base URL's path.
C11_StaysUnderBase ==
    fout.done =>
        /\ Len(fout.url) >= Len(base_url) + 1
        /\ SubSeq(fout.url, 1, Len(base_url) + 1) = base_url \o <<"/">>

\* C12: a scan configured with an invalid base URL, an empty candidate list
\* or a concurrency <= 0 issues no transport request and does not return
\* normally (it fails with an error before any request).
InvalidBaseUrl(b) ==
    ~(Len(b) >= 4 /\ IsScheme(b[1]) /\ b[2] = "/" /\ b[3] = "/" /\ b[4] # "/")

BadConfiguration == InvalidBaseUrl(base_url) \/ N = 0 \/ requested <= 0

C12_ConfigurationFailsFast ==
    BadConfiguration => (Issued = 0 /\ pc # "done")

-----------------------------------------------------------------------------
(* Properties of the injection scanners *)

\* the scan has a finding of this subtype for its p-th parameter
HasFinding(subtype, p) ==
    \E i \in 1..Len(vulnerabilities) :
        /\ vulnerabilities[i].subtype = subtype
        /\ vulnerabilities[i].parameter = params[p]

NoProbes(strategy, p) == sent[<<strategy, p>>] = 0

\* C13: in a scan by the SQLi scanner every parameter is probed by the
\* strategies in the order error, time, boolean, and a parameter that has a
\* finding of one strategy gets no request of a later strategy (no boolean
\* probe after a time-based finding).
C13_LaterStrategiesSkipped ==
    \A p \in 1..Len(params) :
        /\ ~NoProbes("time", p) => co.pc \notin {"sqli", "error"}
        /\ ~NoProbes("boolean", p) => co.pc \notin {"sqli", "error", "time"}
        /\ HasFinding("Error-Based", p) =>
               NoProbes("time", p) /\ NoProbes("boolean", p)
        /\ HasFinding("Time-Based Blind", p) => NoProbes("boolean", p)

\* C14: when the error strategy has a finding for some parameter, no time
\* and no boolean request is sent for any parameter of the URL.
C14_ErrorFindingStopsBlind ==
    (\E p \in 1..Len(params) : HasFinding("Error-Based", p)) =>
        \A p \in 1..Len(params) : NoProbes("time", p) /\ NoProbes("boolean", p)

C14_Witness ==
    /\ co.pc = "done"
    /\ Len(params) = 2
    /\ ~HasFinding("Error-Based", 1)
    /\ HasFinding("Error-Based", 2)
    /\ sent[<<"error", 1>>] = 2

\* the request counter of the loop a finding comes from
LoopOf(subtype) ==
    IF subtype = "Error-Based" THEN "error"
    ELSE IF subtype = "Time-Based Blind" THEN "time"
    ELSE "reflected"

C16_NoBaselineNoProbe ==
    (co.pc \notin {"sqli", "xss"} /\ baseline.kind # "response") =>
        /\ co.pc = "done"
        /\ vulnerabilities = <<>>
        /\ \A key \in SentKeys : sent[key] = 0

C16_Witness ==
    /\ co.pc = "done"
    /\ baseline.kind = "none"
    /\ Len(params) = 2
    /\ target.error_payloads > 0

\* C17: the check of the response time reports a vulnerability iff the
\* response took more than five seconds longer than the baseline, with
\* confidence High for a delay of more than ten seconds and Medium for a
\* delay of more than five and at most ten seconds.
C17_TimingClassification ==
    fout.done =>
        LET delay == fin.response_time - fin.baseline_time IN
        /\ fout.vulnerable <=> delay > 5 * TicksPerSecond
        /\ fout.vulnerable =>
               fout.confidence = IF delay > 10 * TicksPerSecond
                                 THEN "High"
                                 ELSE "Medium"

C17_Witness ==
    /\ fout.done
    /\ fin.baseline_time = 3
    /\ fin.response_time = 103
    /\ fout.vulnerable
    /\ fout.confidence = "Medium"

\* C18: a time-based finding never has the confidence Low.
C18_NoLowFinding ==
    (fout.done /\ fout.vulnerable) => fout.confidence \in {"Medium", "High"}

C18_Witness ==
    /\ fout.done
    /\ fin.response_time - fin.baseline_time = 5 * TicksPerSecond + 1
    /\ fout.vulnerable

\* C19: the comparison of the true and the false response reports a
\* vulnerability iff the lengths differ by more than 100, or one response is
\* within 50 characters of the baseline and the other differs from it by
\* more than 200, or the status codes differ; its confidence is High.
Within(resp, base, n) == Abs(resp.length - base.length) <= n

Beyond(resp, base, n) == Abs(resp.length - base.length) > n

C19_BooleanDifferential ==
    fout.done =>
        LET t == fin.true_response
            f == fin.false_response
            b == fin.baseline
        IN  /\ fout.vulnerable <=>
                   \/ Abs(t.length - f.length) > 100
                   \/ (Within(t, b, 50) /\ Beyond(f, b, 200))
                   \/ (Within(f, b, 50) /\ Beyond(t, b, 200))
                   \/ t.status_code # f.status_code
            /\ fout.vulnerable => fout.confidence = "High"

C19_Witness ==
    /\ fout.done
    /\ fin.baseline.length = 1000
    /\ fin.true_response.length = 1005
    /\ fin.false_response.length = 1300
    /\ fin.true_response.status_code = fin.false_response.status_code
    /\ fout.vulnerable
    /\ fout.confidence = "High"

\* the engine has a pattern that is found in the text
EngineMatches(text, e) ==
    \E p \in 1..Len(SqlErrorPatterns[Engines[e]]) :
        Search(text, SqlErrorPatterns[Engines[e]][p]) # NoMatch

\* the response is attributed to the first engine that matches, to none if
\* none matches, with High iff the matched text has a strong indicator
FirstEngineWins ==
    /\ fout.db_type = "None" <=>
           \A e \in 1..Len(Engines) : ~EngineMatches(fin.text, e)
    /\ \A e \in 1..Len(Engines) :
           (EngineMatches(fin.text, e)
            /\ \A d \in 1..(e - 1) : ~EngineMatches(fin.text, d)) =>
               fout.db_type = Engines[e]
    /\ fout.db_type # "None" =>
           (fout.confidence = "High" <=>
                \E k \in 1..Len(high_confidence) :
                    Contains(fout.error_msg, high_confidence[k]))
    /\ fout.db_type # "None" => fout.confidence \in {"High", "Medium"}

SyntaxErrorPhrase == <<"You have an error in your", "SQL syntax">>

\* C20: the response is attributed to the first engine, in the order MySQL,
\* MSSQL, PostgreSQL, Oracle, SQLite, that has a matching pattern, the
\* confidence is High iff the matched text has a strong indicator and Medium
\* otherwise, and every body that contains 'You have an error in your SQL
\* syntax' is MySQL with High.
C20_ErrorSignature ==
    fout.done =>
        /\ FirstEngineWins
        /\ Contains(fin.text, SyntaxErrorPhrase) =>
               fout.db_type = "mysql" /\ fout.confidence = "High"

-----------------------------------------------------------------------------
(* Properties of the reflection test *)

\* needle occurs in text, character by character
Occurs(needle, text) ==
    \E s \in 0..(Len(text) - Len(needle)) :
        \A j \in 1..Len(needle) : text[s + j] = needle[j]

\* C21: a payload is classified as reflected iff the body contains it
\* verbatim, or with its angle brackets written as HTML entities, as percent
\* escapes or as Unicode escapes, or the payload has more than 10 characters
\* and the body contains its first 5 and its last 5 characters.
C21_Reflected ==
    fout.done =>
        LET p == fin.payload
            t == fin.text
        IN  fout.reflected <=>
                \/ Occurs(p, t)
                \/ Occurs(HtmlEncoded(p), t)
                \/ Occurs(UrlEncoded(p), t)
                \/ Occurs(UnicodeEscaped(p), t)
                \/ /\ Len(p) > 10
                   /\ Occurs(SubSeq(p, 1, 5), t)
                   /\ Occurs(SubSeq(p, Len(p) - 4, Len(p)), t)

\* '<script>alert(1)</script>' in a body that is
\* '&lt;script&gt;alert(1)&lt;/script&gt;'
C21_Witness ==
    /\ fout.done
    /\ fin.payload = ScriptPayload
    /\ fin.text = <<"&", "l", "t", ";", "s", "c", "r", "i", "p", "t",
                    "&", "g", "t", ";", "a", "l", "e", "r", "t", "(", "1",
                    ")", "&", "l", "t", ";", "/", "s", "c", "r", "i", "p",
                    "t", "&", "g", "t", ";">>
    /\ fout.reflected

-----------------------------------------------------------------------------
(* Further properties of the path prober *)

\* C22: the results are in the order in which the futures are yielded to
\* the aggregation loop: the list changes only when a future is yielded, and
\* then the result of that future is put at its end.
C22_YieldOrder ==
    [][results' # results =>
          \E i \in 1..N :
              /\ i \notin yielded
              /\ yielded' = yielded \cup {i}
              /\ future[i].kind = "result"
              /\ results' = Append(results, future[i])]_vars

\* both candidates are retained and the second of the input list is the
\* first of the results
C22_Witness ==
    /\ pc = "done"
    /\ N = 2
    /\ Len(results) = 2
    /\ future_to_url[1] # future_to_url[2]
    /\ results[1].url = future_to_url[2]
    /\ results[2].url = future_to_url[1]

\* C26: between two iterations of the aggregation loop and at return,
\* stats['found'] is the length of results, and every element of results
\* has a retained status code and the URL built from a candidate of the
\* word list.
C26_ResultsConsistent ==
    pc \in {"collect", "done"} =>
        /\ stats.found = Len(results)
        /\ \A k \in 1..Len(results) :
               /\ Retained(results[k].status_code)
               /\ \E i \in 1..N : results[k].url = UrlOf(i)

C26_Witness ==
    /\ pc = "collect"
    /\ N = 2
    /\ completed = 1
    /\ Len(results) = 1
    /\ stats.found = 1

-----------------------------------------------------------------------------
(* Further properties of the injection scanners *)

\* C27: the verdict of the comparison is (|len1 - len2| > 100 or the status
\* codes differ): the clause about the baseline adds nothing, and the
\* verdict is the same for every baseline length.
C27_BaselineSubsumed ==
    fout.done =>
        (fout.vulnerable <=>
             \/ Abs(fin.true_response.length - fin.false_response.length) > 100
             \/ fin.true_response.status_code # fin.false_response.status_code)

\* the clause about the baseline holds: the false response is like the
\* baseline, the true response is not
C27_Witness ==
    /\ fout.done
    /\ fin.baseline.length = 1000
    /\ fin.true_response.length = 1201
    /\ fin.false_response.length = 951
    /\ fin.true_response.status_code = fin.false_response.status_code
    /\ fout.vulnerable

\* the request counter of the payload loop the scan is in
LoopKey ==
    IF co.pc = "error" THEN <<"error", co.p>>
    ELSE IF co.pc = "time" THEN <<"time", co.p>>
    ELSE IF co.pc = "xss_url" THEN <<"reflected", co.p>>
    ELSE <<"form", co.f, co.p>>

\* C23: a payload loop sends the payloads of its list in list order from the
\* first one, and at most 15 error payloads, 10 time payloads and 20
\* reflected payloads for a query parameter and 10 payloads for a form
\* input, however long the list is.
C23_CappedPrefix ==
    /\ \A p \in 1..MaxQuery :
           /\ sent[<<"error", p>>] <= Min(target.error_payloads, 15)
           /\ sent[<<"time", p>>] <= Min(target.time_payloads, 10)
           /\ sent[<<"reflected", p>>] <= Min(target.xss_payloads, 20)
    /\ \A f \in 1..2, p \in 1..2 :
           sent[<<"form", f, p>>] <= Min(target.xss_payloads, 10)
    /\ co.pc \in {"error", "time", "xss_url", "xss_form"} =>
           co.k = sent[LoopKey] + 1

\* a list of 16 error payloads, of which 15 were sent for the parameter
C23_Witness ==
    /\ co.pc = "done"
    /\ target.error_payloads = 16
    /\ Len(params) = 1
    /\ sent[<<"error", 1>>] = 15

\* C24: the scan of a page that was fetched ends with the DOM findings of
\* the page in its list, each with confidence Medium, whatever the query
\* parameters and the forms of the page are and whatever happens while they
\* are tested.
C24_DomScanAlwaysRuns ==
    (co.pc = "done" /\ target.xss_payloads > 0 /\ baseline.kind = "response") =>
        LET dom == DomFindings(baseline.sinks)
            n == Len(vulnerabilities)
        IN  /\ n >= Len(dom)
            /\ SubSeq(vulnerabilities, n - Len(dom) + 1, n) = dom
            /\ \A i \in 1..Len(dom) : dom[i].confidence = "Medium"

-----------------------------------------------------------------------------
(* Properties of the run *)

\* C25: a run with vulnerability scanning enabled hands the target and
\* after it every URL the path prober found to the XSS scanner and to the
\* SQLi scanner, however many URLs were found.
C25_AllFoundUrlsScanned ==
    (fout.pc \in {"done", "raised"} /\ ~fin.skip_vuln) =>
        /\ fout.xss = [i \in 1..(fin.found + 1) |-> i - 1]
        /\ fout.sqli = [i \in 1..(fin.found + 1) |-> i - 1]

-----------------------------------------------------------------------------
(* Properties of the probe URLs *)

HasPair(query, pair) == \E i \in 1..Len(query) : query[i] = pair

\* C28: when the loop over the parameters is over, every probe URL has
\* every name=value pair of the scanned URL whose name is not the parameter
\* under test (also a pair with an empty value), and every name of the
\* scanned URL is the parameter under test of a probe.
C28_OnlyTestedParameterChanges ==
    fout.done =>
        \A i \in 1..Len(fin.query) :
            /\ \E k \in 1..Len(fout.probes) :
                   fout.probes[k].parameter = fin.query[i][1]
            /\ \A k \in 1..Len(fout.probes) :
                   fout.probes[k].parameter # fin.query[i][1] =>
                       HasPair(fout.probes[k].query, fin.query[i])

-----------------------------------------------------------------------------
(* Failures inside a scan by the SQLi scanner *)

IsPrefix(s, t) == Len(s) <= Len(t) /\ SubSeq(t, 1, Len(s)) = s

\* C29: a probe request of the SQLi scanner that gives no finding (as every
\* failed request does) discards no finding and does not end the scan: in
\* the error and the time loop the next payload of the same parameter
\* follows, in the boolean loop a failed true request is followed by the
\* next parameter without a false request, and the scan ends only after
\* its last parameter.
C29_FailureIsolated ==
    [][co.pc \in {"error", "time", "boolean_true", "boolean_false"} =>
          /\ IsPrefix(vulnerabilities, vulnerabilities')
          /\ (co.pc = "error" /\ vulnerabilities' = vulnerabilities
                  /\ co.k < ErrorPayloads)
              => co' = At("error", co.p, co.k + 1)
          /\ (co.pc = "time" /\ vulnerabilities' = vulnerabilities
                  /\ co.k < TimePayloads)
              => co' = At("time", co.p, co.k + 1)
          /\ (co.pc = "boolean_true" /\ true_response'.kind # "response")
              => /\ co'.pc # "boolean_false"
                 /\ co.p < Len(params)
                        => co' = At("boolean_true", co.p + 1, 0)
          /\ co'.pc = "done" => co.p = Len(params)]_vars

\* the true request for the first parameter failed: no false request was
\* sent for it, the finding made before is kept and the second parameter
\* is next
C29_Witness ==
    /\ co = At("boolean_true", 2, 0)
    /\ sent[<<"boolean", 1>>] = 1
    /\ Len(vulnerabilities) = 1
    /\ vulnerabilities[1].subtype = "Time-Based Blind"

-----------------------------------------------------------------------------
(* Termination of the path prober *)

NoRequestHangs == \A i \in 1..N : Answer(i).kind # "hang"

\* C30: for a non-empty candidate list, every candidate is submitted to the
\* pool before the first result is aggregated, no list entry is requested
\* twice and at return every entry, a repeated word included, was requested
\* exactly once; and when no transport call hangs, a scan with a pool that is
\* not interrupted by the user eventually returns.
C30_AllSubmittedOnceAndReturns ==
    /\ [](N > 0 =>
            /\ pc = "submit" => (yielded = {} /\ completed = 0 /\ results = <<>>)
            /\ yielded # {} => submitted = N
            /\ \A i \in 1..N : requests[i] <= 1
            /\ pc = "done" => \A i \in 1..N : requests[i] = 1)
    /\ [][yielded' # yielded => (submitted = N /\ submitted' = N)]_vars
    /\ (pc = "start" /\ N > 0 /\ threads >= 1 /\ NoRequestHangs)
           ~> (pc = "done" \/ interrupted)

C30_Witness ==
    /\ pc = "done"
    /\ N = 2
    /\ wordlist[1] = wordlist[2]
    /\ requests[1] = 1 /\ requests[2] = 1
    /\ \E i \in 1..N : Failed(i)
    /\ ~interrupted

=============================================================================
